---- MODULE Spec2Model ----
(***************************************************************************)
(* Model of modpackdown: the mod scanner (get_mod_versions), the session   *)
(* lifecycle (ModPackDown.init / deinit) and the reconciliation engine     *)
(* (ModPackDown.install_pack / uninstall_pack).                            *)
(***************************************************************************)
EXTENDS Integers, Sequences, FiniteSets, TLC

\* Bounds of the model: install_pack/uninstall_pack calls and sessions per run.
MaxCalls == 3
MaxSessions == 2

\* Python's None, as the value of an absent manifest field.
None == "None"

\* A dict with no key.
EmptyMap == [k \in {} |-> None]

\* d[k] = v
Put(d, k, v) == [x \in (DOMAIN d) \cup {k} |-> IF x = k THEN v ELSE d[x]]

\* d.pop(k, None)
Pop(d, k) == [x \in (DOMAIN d) \ {k} |-> d[x]]

(***************************************************************************)
(* File contents.  A file is a zip archive or not; an archive has no       *)
(* fabric.mod.json, one that is not JSON, or one that is a JSON object.    *)
(***************************************************************************)
Jar(manifest, schemaVersion, id, version) ==
    [zip |-> TRUE, manifest |-> manifest, schemaVersion |-> schemaVersion,
     id |-> id, version |-> version]

Mod(id, version) == Jar("object", 1, id, version)

NotAZip == [zip |-> FALSE, manifest |-> "absent", schemaVersion |-> 0,
            id |-> None, version |-> None]

\* What a copy that failed midway leaves behind: a truncated archive.
Truncated == NotAZip

\* An entry of a container: its base name, whether it is a regular file, its bytes.
Entry(name, is_file, content) ==
    [name |-> name, is_file |-> is_file, content |-> content]

\* file.name.endswith('.jar')
EndsWithJar(name) == name \in {"a.jar", "b.jar", "u.jar", "bad.jar", "old.jar", "dir.jar"}

(***************************************************************************)
(* The pack archives on disk, in archive order.  A and B both ship mod     *)
(* "m" under the same file name.  "X" names no readable archive.           *)
(***************************************************************************)
PackPaths == {"A", "B", "X"}

\* zipfile.ZipFile(pack_path) with its failure swallowed: a path that does not
\* open is taken for an archive with no entry.
PackReadable_Always(p) == TRUE

\* zipfile.ZipFile(pack_path) opens the archive
PackReadable(p) == p \in {"A", "B"}

PackEntries(p) ==
    IF p = "A" THEN
        << Entry("a.jar", TRUE, Mod("m", "1.0")),
           Entry("notes.txt", TRUE, NotAZip),
           Entry("b.jar", TRUE, Mod("n", "1.0")) >>
    ELSE IF p = "B" THEN
        << Entry("bad.jar", TRUE, NotAZip),
           Entry("dir.jar", FALSE, NotAZip),
           Entry("old.jar", TRUE, Jar("object", 2, "o", "1.0")),
           Entry("a.jar", TRUE, Mod("m", "1.0")) >>
    ELSE << >>

(***************************************************************************)
(* What the user may have put in the mods directory before the first       *)
(* session: nothing, mod "n" under a file name of its own, or a mod "k"    *)
(* under the file name the packs use for "m".                              *)
(***************************************************************************)
UserDirs ==
    { EmptyMap,
      [f \in {"u.jar"} |-> Mod("n", "0.9")],
      [f \in {"a.jar"} |-> Mod("k", "1.0")] }

\* read_mod_version's None
NoInfo == << >>

\* read_mod_version(zfp), for an archive that opened
read_mod_version(zf) ==
    IF zf.manifest = "absent" THEN NoInfo
    ELSE IF zf.manifest # "object" THEN NoInfo
    ELSE IF zf.schemaVersion # 1 THEN NoInfo
    ELSE IF zf.id = None \/ zf.version = None THEN NoInfo
    ELSE << zf.id, zf.version >>

\* result[mod_id] = (mod_version, file) on a dict that keeps insertion order
RECURSIVE DictSet(_, _, _)
DictSet(result, mod_id, item) ==
    IF result = << >> THEN << item >>
    ELSE IF Head(result).mod_id = mod_id THEN << item >> \o Tail(result)
    ELSE << Head(result) >> \o DictSet(Tail(result), mod_id, item)

Item(mod_id, mod_version, file) ==
    [mod_id |-> mod_id, mod_version |-> mod_version, file |-> file]

\* The loop without line 78: what it extracts is returned but not memoised.
ScanFile_NoStore(file, acc) ==
    IF ~EndsWithJar(file.name) THEN acc
    ELSE IF ~file.is_file THEN acc
    ELSE IF file.name \in DOMAIN acc.cache THEN
        LET info == acc.cache[file.name] IN
        [acc EXCEPT !.result = DictSet(@, info[1], Item(info[1], info[2], file.name))]
    ELSE IF ~file.content.zip THEN
        [acc EXCEPT !.opened = Append(@, file.name)]
    ELSE
        LET info == read_mod_version(file.content) IN
        IF info = NoInfo THEN [acc EXCEPT !.opened = Append(@, file.name)]
        ELSE [result |-> DictSet(acc.result, info[1], Item(info[1], info[2], file.name)),
              cache |-> acc.cache,
              opened |-> Append(acc.opened, file.name)]

\* One iteration of get_mod_versions' loop over `file`.
ScanFile(file, acc) ==
    IF ~EndsWithJar(file.name) THEN acc
    ELSE IF ~file.is_file THEN acc
    ELSE IF file.name \in DOMAIN acc.cache THEN
        LET info == acc.cache[file.name] IN
        [acc EXCEPT !.result = DictSet(@, info[1], Item(info[1], info[2], file.name))]
    ELSE IF ~file.content.zip THEN
        [acc EXCEPT !.opened = Append(@, file.name)]
    ELSE
        LET info == read_mod_version(file.content) IN
        IF info = NoInfo THEN [acc EXCEPT !.opened = Append(@, file.name)]
        ELSE [result |-> DictSet(acc.result, info[1], Item(info[1], info[2], file.name)),
              cache |-> Put(acc.cache, file.name, info),
              opened |-> Append(acc.opened, file.name)]

RECURSIVE ScanFrom(_, _, _)
ScanFrom(entries, i, acc) ==
    IF i > Len(entries) THEN acc
    ELSE ScanFrom(entries, i + 1, ScanFile(entries[i], acc))

\* get_mod_versions(mods_dir, cache): the mapping returned, the cache as it leaves
\* it, and the files it opened as archives.
get_mod_versions(entries, cache) ==
    ScanFrom(entries, 1, [result |-> << >>, cache |-> cache, opened |-> << >>])

\* The listings iterdir() may give of a directory holding `files`.
Listings(files) ==
    LET names == DOMAIN files
        n == Cardinality(names)
        orders == { o \in [1..n -> names] : \A i, j \in 1..n : o[i] = o[j] => i = j }
    IN  { [i \in 1..n |-> Entry(o[i], TRUE, files[o[i]])] : o \in orders }

\* LoadedModList as a mapping: mod id -> (version, file)
RECURSIVE AsMap(_)
AsMap(result) ==
    IF result = << >> THEN EmptyMap
    ELSE Put(AsMap(Tail(result)), Head(result).mod_id,
             [mod_version |-> Head(result).mod_version, file |-> Head(result).file])

\* A persisted JSON file: missing, unparseable, or holding a mapping.  json.dump
\* writes the cache's (id, version) tuples as two-element arrays and json.load
\* gives them back as lists, which line 67 unpacks as it unpacks the tuples; the
\* store's string keys and integer counts come back as written.
Missing == [state |-> "missing", data |-> EmptyMap]
Corrupt == [state |-> "corrupt", data |-> EmptyMap]
Holding(data) == [state |-> "json", data |-> data]

\* json.load under init's except clause
LoadOrEmpty(f) == IF f.state = "json" THEN f.data ELSE EmptyMap


(***************************************************************************)
(* State.                                                                  *)
(***************************************************************************)
VARIABLES
    mods_dir,               \* the .jar files of the mods directory: name -> bytes
    cache_file,             \* modpackdown_cache.json
    installed_packs_file,   \* modpackdown_data.json
    initted,                \* ModPackDown.initted
    version_id_cache,       \* ModPackDown.version_id_cache: name -> (id, version)
    packed_mods,            \* ModPackDown.packed_mods: mod id -> count
    current_mods,           \* ModPackDown.current_mods: mod id -> (version, file)
    pc,                     \* "idle", or the loop the running call is in
    call,                   \* the locals of the running call and what it emitted
    prev,                   \* the last call that ended, as it ended
    calls,                  \* how many install_pack/uninstall_pack calls were made
    sessions,               \* how many times init ran
    deinit_raised,          \* what the last deinit raised: the failed writes
    init_raised,            \* what the last init raised: the file it could not open
    user_files,             \* the mods directory as the user left it at the start
    applied,                \* per pack: install_pack calls minus uninstall_pack calls
    io_failed               \* some copy, unlink or write has failed so far

vars == << mods_dir, cache_file, installed_packs_file, initted, version_id_cache,
           packed_mods, current_mods, pc, call, prev, calls, sessions, deinit_raised,
           init_raised, user_files, applied, io_failed >>

\* The variables that only record what happened.
history == << user_files, applied, io_failed >>

\* What a call finds when it starts.
Snap(packed, dir, cur) ==
    [packed_mods |-> packed, files |-> DOMAIN dir, current_mods |-> cur]

Snapshot == Snap(packed_mods, mods_dir, current_mods)

NoSummary == << >>

\* The frame of a call: its counters (lines 141-143, 177-179), its scan mapping,
\* the position of its loop, and the events and file operations it produced:
\* the entries its scan opened as archives, the files copied, the paths unlink
\* was called on, the files it removed.  `session` numbers the session it ran in.
\* `matching` marks an uninstall_pack of a pack that an earlier install_pack applied.
NewCall(op, pack_path, pack_mods, snapshot, matching) ==
    [op |-> op, pack_path |-> pack_path, pack_mods |-> pack_mods, next |-> 1,
     installed_count |-> 0, uninstalled_count |-> 0,
     skipped_count |-> 0, failed_count |-> 0,
     events |-> << >>, summary |-> NoSummary, raised |-> FALSE,
     session |-> 0, opened |-> << >>,
     copied |-> << >>, unlinked |-> << >>, deleted |-> << >>,
     pre |-> snapshot, matching |-> matching]

NoCall == NewCall("none", "none", << >>,
                  [packed_mods |-> EmptyMap, files |-> {}, current_mods |-> EmptyMap], FALSE)

Event(event, mod_id, counter, reason) ==
    [event |-> event, mod_id |-> mod_id, counter |-> counter, reason |-> reason]

\* The bytes of the pack's entry `name`.
RECURSIVE ContentIn(_, _)
ContentIn(entries, name) ==
    IF Head(entries).name = name THEN Head(entries).content
    ELSE ContentIn(Tail(entries), name)

Init ==
    /\ mods_dir \in UserDirs
    /\ cache_file = Missing
    /\ installed_packs_file = Missing
    /\ initted = FALSE
    /\ version_id_cache = EmptyMap
    /\ packed_mods = EmptyMap
    /\ current_mods = EmptyMap
    /\ pc = "idle"
    /\ call = NoCall
    /\ prev = NoCall
    /\ calls = 0
    /\ sessions = 0
    /\ deinit_raised = << >>
    /\ init_raised = None
    /\ user_files = mods_dir
    /\ applied = [p \in PackPaths |-> 0]
    /\ io_failed = FALSE

(***************************************************************************)
(* ModPackDown.init                                                        *)
(***************************************************************************)
\* open(file) for reading at lines 101 and 106: it gives the file, or raises.  A
\* FileNotFoundError is the file state "missing"; any other OSError
\* (PermissionError, IsADirectoryError) is a file that is there and unreadable.
ReadFailures == { None, "cache_file", "installed_packs_file" }

init ==
    /\ pc = "idle"
    /\ ~initted
    /\ sessions < MaxSessions
    /\ \E unreadable \in ReadFailures :
         /\ init_raised' = unreadable
         /\ io_failed' = (io_failed \/ unreadable # None)
         /\ IF unreadable = "cache_file" THEN
                \* line 101 raises: no attribute is assigned
                UNCHANGED << version_id_cache, packed_mods, current_mods, initted >>
            ELSE IF unreadable = "installed_packs_file" THEN
                \* line 106 raises: only the cache was loaded
                /\ version_id_cache' = LoadOrEmpty(cache_file)
                /\ UNCHANGED << packed_mods, current_mods, initted >>
            ELSE
                /\ \E listing \in Listings(mods_dir) :
                      LET scan == get_mod_versions(listing, LoadOrEmpty(cache_file)) IN
                      /\ version_id_cache' = scan.cache
                      /\ current_mods' = AsMap(scan.result)
                /\ packed_mods' = LoadOrEmpty(installed_packs_file)
                /\ initted' = TRUE
    /\ sessions' = sessions + 1
    /\ UNCHANGED << mods_dir, cache_file, installed_packs_file, pc, call, prev, calls,
                    deinit_raised, user_files, applied >>

(***************************************************************************)
(* ModPackDown.deinit.  A write succeeds, or fails after open(.., 'w')     *)
(* truncated the file.  (A failure of open itself, which leaves the old    *)
(* file, is left out.)                                                     *)
(***************************************************************************)
WriteOutcomes == {"written", "truncated"}

WriteJson(file, data, outcome) ==
    IF outcome = "written" THEN Holding(data) ELSE Corrupt

\* Line 127 without the chaining: a second failure is dropped when the first
\* write has failed already.
ToReraise_FirstOnly(w1, w2) ==
    IF w1 # "written" THEN << "cache_file" >>
    ELSE IF w2 # "written" THEN << "installed_packs_file" >>
    ELSE << >>

\* to_reraise after both attempts: no failure, the one failure, or both chained
ToReraise(w1, w2) ==
    (IF w1 = "written" THEN << >> ELSE << "cache_file" >>)
        \o (IF w2 = "written" THEN << >> ELSE << "installed_packs_file" >>)

deinit ==
    /\ pc = "idle"
    /\ initted
    /\ \E w1, w2 \in WriteOutcomes :
         /\ cache_file' = WriteJson(cache_file, version_id_cache, w1)
         /\ installed_packs_file' = WriteJson(installed_packs_file, packed_mods, w2)
         /\ deinit_raised' = ToReraise(w1, w2)
         /\ io_failed' = (io_failed \/ ToReraise(w1, w2) # << >>)
    /\ initted' = FALSE
    /\ UNCHANGED << mods_dir, version_id_cache, packed_mods, current_mods, pc, call,
                    prev, calls, sessions, init_raised, user_files, applied >>


(***************************************************************************)
(* ModPackDown.install_pack                                                *)
(***************************************************************************)

\* Lines 144-147 (and 180-183): open the pack, scan it with the shared cache, emit
\* identified_mods_to_install.  A pack that does not open raises out of the call.
OpenPack(op, pack_path) ==
    /\ IF PackReadable(pack_path) THEN
          LET scan == get_mod_versions(PackEntries(pack_path), version_id_cache)
              frame == NewCall(op, pack_path, scan.result, Snapshot,
                               op = "uninstall" /\ applied[pack_path] > 0)
          IN  /\ version_id_cache' = scan.cache
              /\ call' = [frame EXCEPT !.session = sessions,
                                       !.opened = scan.opened,
                                       !.events =
                            << Event("identified_mods_to_install", None,
                                     Len(scan.result), op) >>]
              /\ pc' = op
              /\ prev' = prev
              /\ applied' = [applied EXCEPT ![pack_path] =
                                IF op = "install" THEN @ + 1
                                ELSE IF @ > 0 THEN @ - 1 ELSE 0]
       ELSE
          /\ call' = [NewCall(op, pack_path, << >>, Snapshot, FALSE)
                        EXCEPT !.raised = TRUE]
          /\ prev' = call'
          /\ UNCHANGED << version_id_cache, pc, applied >>
    /\ UNCHANGED << mods_dir, cache_file, installed_packs_file, initted, packed_mods,
                    current_mods, sessions, deinit_raised, init_raised, user_files, io_failed >>

\* Lines 140-147: the call up to its loop.
install_pack(pack_path) ==
    /\ pc = "idle"
    /\ initted
    /\ calls < MaxCalls
    /\ calls' = calls + 1
    /\ OpenPack("install", pack_path)

\* How the copy of lines 163-167 can end: done, failed before the target was
\* created, failed after it was created.
CopyOutcomes == {"copied", "no_file", "truncated"}

CopyFile(dir, pack_path, name, outcome) ==
    IF outcome = "copied" THEN Put(dir, name, ContentIn(PackEntries(pack_path), name))
    ELSE IF outcome = "truncated" THEN Put(dir, name, Truncated)
    ELSE dir

\* Lines 150-161: the count install_pack records for mod_id.
InstallCount(packed, cur, mod_id) ==
    IF mod_id \in DOMAIN cur THEN
        IF mod_id \in DOMAIN packed THEN Put(packed, mod_id, packed[mod_id] + 1)
        ELSE Put(packed, mod_id, 2)
    ELSE Put(packed, mod_id, 1)

\* Lines 169-170 with the counter of lines 158-159: a failed copy is tallied
\* as skipped.
InstallFrame_FailureCountsSkipped(c, packed, cur, mod, outcome) ==
    IF mod.mod_id \in DOMAIN cur THEN
        [c EXCEPT !.next = @ + 1,
                  !.skipped_count = @ + 1,
                  !.events = Append(@, Event("skipped_installation", mod.mod_id,
                                c.skipped_count + 1,
                                IF mod.mod_id \in DOMAIN packed
                                    THEN "another_pack" ELSE "user"))]
    ELSE IF outcome = "copied" THEN
        [c EXCEPT !.next = @ + 1,
                  !.installed_count = @ + 1,
                  !.copied = Append(@, mod.file),
                  !.events = Append(@, Event("succeeded_installation", mod.mod_id,
                                c.installed_count + 1, None))]
    ELSE
        [c EXCEPT !.next = @ + 1,
                  !.skipped_count = @ + 1,
                  !.events = Append(@, Event("failed_installation", mod.mod_id,
                                c.skipped_count + 1, outcome))]

\* Lines 149-173: the counters and the event of one iteration.
InstallFrame(c, packed, cur, mod, outcome) ==
    IF mod.mod_id \in DOMAIN cur THEN
        [c EXCEPT !.next = @ + 1,
                  !.skipped_count = @ + 1,
                  !.events = Append(@, Event("skipped_installation", mod.mod_id,
                                c.skipped_count + 1,
                                IF mod.mod_id \in DOMAIN packed
                                    THEN "another_pack" ELSE "user"))]
    ELSE IF outcome = "copied" THEN
        [c EXCEPT !.next = @ + 1,
                  !.installed_count = @ + 1,
                  !.copied = Append(@, mod.file),
                  !.events = Append(@, Event("succeeded_installation", mod.mod_id,
                                c.installed_count + 1, None))]
    ELSE
        [c EXCEPT !.next = @ + 1,
                  !.failed_count = @ + 1,
                  !.events = Append(@, Event("failed_installation", mod.mod_id,
                                c.failed_count + 1, outcome))]

\* One iteration of the loop of line 148.
install_mod ==
    /\ pc = "install"
    /\ call.next <= Len(call.pack_mods)
    /\ LET mod == call.pack_mods[call.next] IN
       \E outcome \in (IF mod.mod_id \in DOMAIN current_mods THEN {"skipped"}
                       ELSE CopyOutcomes) :
          /\ packed_mods' = InstallCount(packed_mods, current_mods, mod.mod_id)
          /\ mods_dir' = IF mod.mod_id \in DOMAIN current_mods THEN mods_dir
                         ELSE CopyFile(mods_dir, call.pack_path, mod.file, outcome)
          /\ call' = InstallFrame(call, packed_mods, current_mods, mod, outcome)
          /\ io_failed' = (io_failed \/ outcome \in {"no_file", "truncated"})
    /\ UNCHANGED << cache_file, installed_packs_file, initted, version_id_cache,
                    current_mods, pc, prev, calls, sessions, deinit_raised, init_raised,
                    user_files, applied >>

\* Line 174: the loop is over, the pack is closed, the summary is emitted.
pack_installed ==
    /\ pc = "install"
    /\ call.next > Len(call.pack_mods)
    /\ call' = [call EXCEPT
                  !.summary = << call.installed_count, call.skipped_count,
                                 call.failed_count >>]
    /\ prev' = call'
    /\ pc' = "idle"
    /\ UNCHANGED << mods_dir, cache_file, installed_packs_file, initted,
                    version_id_cache, packed_mods, current_mods, calls, sessions,
                    deinit_raised, init_raised, history >>

(***************************************************************************)
(* ModPackDown.uninstall_pack                                              *)
(***************************************************************************)
\* Lines 176-183: the call up to its loop.
uninstall_pack(pack_path) ==
    /\ pc = "idle"
    /\ initted
    /\ calls < MaxCalls
    /\ calls' = calls + 1
    /\ OpenPack("uninstall", pack_path)

\* removal_path.unlink(): the file is not there (FileNotFoundError), or it is and
\* the unlink removes it or is refused (PermissionError, not caught at line 195).
UnlinkOutcomes(dir, name) ==
    IF name \in DOMAIN dir THEN {"removed", "denied"} ELSE {"missing"}

\* Line 192: the file uninstall_pack unlinks for a mod of the pack.
RemovalPath(mod) == mod.file

\* Line 188 with the wrong threshold: a count that drops to 1 is not kept.
StillClaimed_OffByOne(packed, mod_id) == packed[mod_id] - 1 > 1

\* Line 188: the branch taken after the decrement of line 187.
StillClaimed(packed, mod_id) == packed[mod_id] - 1 > 0

\* What one iteration does: "not_installed", "skipped", or the unlink's outcome.
UninstallOutcomes(packed, dir, mod) ==
    IF mod.mod_id \notin DOMAIN packed THEN {"not_installed"}
    ELSE IF StillClaimed(packed, mod.mod_id) THEN {"skipped"}
    ELSE UnlinkOutcomes(dir, RemovalPath(mod))

\* Line 202 moved into the else branch of line 198: a mod whose file was
\* missing keeps its entry, at count 0.
UninstallCount_KeepsMissing(packed, mod_id, outcome) ==
    IF outcome = "not_installed" THEN packed
    ELSE IF outcome \in {"skipped", "denied", "missing"}
        THEN Put(packed, mod_id, packed[mod_id] - 1)
    ELSE Pop(packed, mod_id)

\* Lines 186-202: the store after one iteration.
UninstallCount(packed, mod_id, outcome) ==
    IF outcome = "not_installed" THEN packed
    ELSE IF outcome \in {"skipped", "denied"} THEN Put(packed, mod_id, packed[mod_id] - 1)
    ELSE Pop(packed, mod_id)

\* Line 201 moved out of the branch of line 191: the pop runs for every mod.
UninstallListing_PopAlways(cur, mod_id, outcome) == Pop(cur, mod_id)

\* Line 201: the listing after one iteration.
UninstallListing(cur, mod_id, outcome) ==
    IF outcome \in {"removed", "missing"} THEN Pop(cur, mod_id) ELSE cur

\* Line 194: the directory after one iteration.
Unlink(dir, name, outcome) ==
    IF outcome = "removed" THEN Pop(dir, name) ELSE dir

\* Lines 195-197 without line 196: a missing file is reported but not tallied.
UninstallFrame_MissingUncounted(c, mod, outcome) ==
    IF outcome = "not_installed" THEN
        [c EXCEPT !.next = @ + 1,
                  !.failed_count = @ + 1,
                  !.events = Append(@, Event("failed_uninstallation", mod.mod_id,
                                c.failed_count + 1, "it was not installed"))]
    ELSE IF outcome = "skipped" THEN
        [c EXCEPT !.next = @ + 1,
                  !.skipped_count = @ + 1,
                  !.events = Append(@, Event("skipped_uninstallation", mod.mod_id,
                                c.skipped_count + 1, None))]
    ELSE IF outcome = "missing" THEN
        [c EXCEPT !.next = @ + 1,
                  !.unlinked = Append(@, RemovalPath(mod)),
                  !.events = Append(@, Event("failed_uninstallation", mod.mod_id,
                                c.failed_count, "it was missing"))]
    ELSE IF outcome = "removed" THEN
        [c EXCEPT !.next = @ + 1,
                  !.uninstalled_count = @ + 1,
                  !.unlinked = Append(@, RemovalPath(mod)),
                  !.deleted = Append(@, RemovalPath(mod)),
                  !.events = Append(@, Event("succeeded_uninstallation", mod.mod_id,
                                c.uninstalled_count + 1, None))]
    ELSE [c EXCEPT !.raised = TRUE,
                   !.unlinked = Append(@, RemovalPath(mod))]

\* Lines 185-205: the counters and the event of one iteration.
UninstallFrame(c, mod, outcome) ==
    IF outcome = "not_installed" THEN
        [c EXCEPT !.next = @ + 1,
                  !.failed_count = @ + 1,
                  !.events = Append(@, Event("failed_uninstallation", mod.mod_id,
                                c.failed_count + 1, "it was not installed"))]
    ELSE IF outcome = "skipped" THEN
        [c EXCEPT !.next = @ + 1,
                  !.skipped_count = @ + 1,
                  !.events = Append(@, Event("skipped_uninstallation", mod.mod_id,
                                c.skipped_count + 1, None))]
    ELSE IF outcome = "missing" THEN
        [c EXCEPT !.next = @ + 1,
                  !.failed_count = @ + 1,
                  !.unlinked = Append(@, RemovalPath(mod)),
                  !.events = Append(@, Event("failed_uninstallation", mod.mod_id,
                                c.failed_count + 1, "it was missing"))]
    ELSE IF outcome = "removed" THEN
        [c EXCEPT !.next = @ + 1,
                  !.uninstalled_count = @ + 1,
                  !.unlinked = Append(@, RemovalPath(mod)),
                  !.deleted = Append(@, RemovalPath(mod)),
                  !.events = Append(@, Event("succeeded_uninstallation", mod.mod_id,
                                c.uninstalled_count + 1, None))]
    ELSE [c EXCEPT !.raised = TRUE,
                   !.unlinked = Append(@, RemovalPath(mod))]

\* One iteration of the loop of line 184.  A refused unlink raises out of the
\* call: no later mod is processed and line 206 is not reached.
uninstall_mod ==
    /\ pc = "uninstall"
    /\ call.next <= Len(call.pack_mods)
    /\ LET mod == call.pack_mods[call.next] IN
       \E outcome \in UninstallOutcomes(packed_mods, mods_dir, mod) :
          LET packed == UninstallCount(packed_mods, mod.mod_id, outcome)
              cur == UninstallListing(current_mods, mod.mod_id, outcome)
              dir == Unlink(mods_dir, RemovalPath(mod), outcome)
              frame == UninstallFrame(call, mod, outcome)
          IN  /\ packed_mods' = packed
              /\ current_mods' = cur
              /\ mods_dir' = dir
              /\ io_failed' = (io_failed \/ outcome \in {"denied", "missing"})
              /\ call' = frame
              /\ IF frame.raised
                    THEN /\ prev' = frame
                         /\ pc' = "idle"
                    ELSE UNCHANGED << pc, prev >>
    /\ UNCHANGED << cache_file, installed_packs_file, initted, version_id_cache,
                    calls, sessions, deinit_raised, init_raised, user_files, applied >>

\* Line 206
pack_uninstalled ==
    /\ pc = "uninstall"
    /\ call.next > Len(call.pack_mods)
    /\ call' = [call EXCEPT
                  !.summary = << call.uninstalled_count, call.skipped_count,
                                 call.failed_count >>]
    /\ prev' = call'
    /\ pc' = "idle"
    /\ UNCHANGED << mods_dir, cache_file, installed_packs_file, initted,
                    version_id_cache, packed_mods, current_mods, calls, sessions,
                    deinit_raised, init_raised, history >>

Next ==
    \/ init
    \/ deinit
    \/ \E pack_path \in PackPaths : install_pack(pack_path)
    \/ install_mod
    \/ pack_installed
    \/ \E pack_path \in PackPaths : uninstall_pack(pack_path)
    \/ uninstall_mod
    \/ pack_uninstalled

Spec == Init /\ [][Next]_vars


(***************************************************************************)
(* Vocabulary of the properties.                                           *)
(***************************************************************************)

\* The mod ids a pack really holds: its scan with no cache.
ModIds(pack_path) ==
    LET scan == get_mod_versions(PackEntries(pack_path), EmptyMap)
    IN  { scan.result[i].mod_id : i \in 1..Len(scan.result) }

AllIds == UNION { ModIds(p) : p \in PackPaths } \cup {"k"}

\* The ids of a scan mapping, and the entry of one id in it.
IdsOf(pack_mods) == { pack_mods[i].mod_id : i \in 1..Len(pack_mods) }

ItemOf(pack_mods, mod_id) ==
    pack_mods[CHOOSE i \in 1..Len(pack_mods) : pack_mods[i].mod_id = mod_id]

\* The per-mod events a call emitted for mod_id.
EventsFor(c, mod_id) ==
    { i \in 1..Len(c.events) : c.events[i].mod_id = mod_id }

Emitted(c, event, mod_id) ==
    \E i \in 1..Len(c.events) :
        c.events[i].event = event /\ c.events[i].mod_id = mod_id

\* How many applied packs claim mod_id.
RECURSIVE SumApplied(_, _)
SumApplied(packs, mod_id) ==
    IF packs = {} THEN 0
    ELSE LET p == CHOOSE q \in packs : TRUE
         IN  (IF mod_id \in ModIds(p) THEN applied[p] ELSE 0)
                 + SumApplied(packs \ {p}, mod_id)

Claimants(mod_id) == SumApplied(PackPaths, mod_id)

\* The step that ends a running call: its summary, or an exception leaving it.
EndOfCall(op) == pc = op /\ pc' = "idle"

\* The call that just ended followed, with no call between, an install_pack
\* of the same pack that returned.
AfterInstallOfSamePack ==
    /\ prev.op = "install"
    /\ ~prev.raised
    /\ prev.pack_path = call.pack_path

(***************************************************************************)
(* C1. With every copy, unlink and write succeeding, an uninstall_pack     *)
(* that retracts an applied pack deletes the file of a mod only when no    *)
(* other pack holding that mod is still applied.                           *)
(***************************************************************************)
C1_DeleteOnlyUnclaimed ==
    (call.op = "uninstall" /\ call.matching /\ ~io_failed) =>
        \A mod_id \in IdsOf(call.pack_mods) :
            Emitted(call, "succeeded_uninstallation", mod_id) =>
                \A q \in PackPaths \ {call.pack_path} :
                    applied[q] > 0 => mod_id \notin ModIds(q)

(***************************************************************************)
(* C2. Mod M is in neither the mods directory nor the store; install_pack  *)
(* of one pack copies it, and install_pack of another pack that holds M    *)
(* follows, every file operation succeeding: then M's count is 2 and the   *)
(* second call copied no file for M.  (The uninstall steps of the claim    *)
(* start from this count.)                                                 *)
(***************************************************************************)
C2_SecondInstallCounts ==
    [][ (/\ EndOfCall("install")
         /\ prev.op = "install" /\ ~prev.raised
         /\ prev.pack_path # call.pack_path
         /\ ~io_failed')
        => \A mod_id \in IdsOf(call.pack_mods) \cap IdsOf(prev.pack_mods) :
              (/\ mod_id \notin DOMAIN prev.pre.packed_mods
               /\ mod_id \notin DOMAIN prev.pre.current_mods
               /\ ItemOf(prev.pack_mods, mod_id).file \notin prev.pre.files
               /\ Emitted(prev, "succeeded_installation", mod_id))
              => /\ mod_id \in DOMAIN packed_mods'
                 /\ packed_mods'[mod_id] = 2
                 /\ ~Emitted(call', "succeeded_installation", mod_id) ]_vars

(***************************************************************************)
(* C3. Starting from an empty store and an empty mods directory, with      *)
(* every file operation succeeding, between calls the store count of each  *)
(* mod id is the number of applied packs that hold it, and the id has no   *)
(* entry exactly when that number is 0.                                    *)
(***************************************************************************)
C3_CountIsClaimants ==
    (pc = "idle" /\ user_files = EmptyMap /\ ~io_failed) =>
        \A mod_id \in AllIds :
            /\ (mod_id \notin DOMAIN packed_mods) <=> (Claimants(mod_id) = 0)
            /\ mod_id \in DOMAIN packed_mods =>
                  packed_mods[mod_id] = Claimants(mod_id)

(***************************************************************************)
(* C4. Between calls, however the last call ended, and in the file deinit  *)
(* wrote, every id of the store has a count >= 1.                          *)
(***************************************************************************)
C4_CountsPositive ==
    /\ pc = "idle" =>
          \A mod_id \in DOMAIN packed_mods : packed_mods[mod_id] >= 1
    /\ \A mod_id \in DOMAIN installed_packs_file.data :
          installed_packs_file.data[mod_id] >= 1

(***************************************************************************)
(* C5. A mod listed in current_mods with no store entry gets count 2 from  *)
(* install_pack and nothing is copied for it; the uninstall_pack of that   *)
(* pack that follows leaves its count at 1 and its listed file in place.   *)
(***************************************************************************)
C5_UserInstalledProtected ==
    [][ /\ (/\ pc = "install"
            /\ call.next <= Len(call.pack_mods)
            /\ call.pack_mods[call.next].mod_id \in DOMAIN current_mods
            /\ call.pack_mods[call.next].mod_id \notin DOMAIN packed_mods)
           => /\ packed_mods'[call.pack_mods[call.next].mod_id] = 2
              /\ mods_dir' = mods_dir
              /\ call'.copied = call.copied
        /\ (EndOfCall("uninstall") /\ AfterInstallOfSamePack)
           => \A i \in 1..Len(prev.events) :
                 (prev.events[i].event = "skipped_installation"
                     /\ prev.events[i].reason = "user")
                 => LET mod_id == prev.events[i].mod_id
                        file == prev.pre.current_mods[mod_id].file
                    IN  /\ mod_id \in DOMAIN packed_mods'
                        /\ packed_mods'[mod_id] = 1
                        /\ file \in call.pre.files => file \in DOMAIN mods_dir' ]_vars

(***************************************************************************)
(* C6. install_pack(P), none of P's mods being listed in current_mods,     *)
(* then at once uninstall_pack(P), every file operation succeeding: the    *)
(* files of the mods directory and the store are what they were before     *)
(* the install, and installed = uninstalled.                               *)
(***************************************************************************)
C6_RoundTrip ==
    [][ (/\ EndOfCall("uninstall")
         /\ AfterInstallOfSamePack
         /\ IdsOf(prev.pack_mods) \cap DOMAIN prev.pre.current_mods = {}
         /\ ~io_failed')
        => /\ DOMAIN mods_dir' = prev.pre.files
           /\ packed_mods' = prev.pre.packed_mods
           /\ call'.uninstalled_count = prev.installed_count ]_vars

(***************************************************************************)
(* C7. install_pack of the pack the last call installed, every file        *)
(* operation succeeding: no file is added, every mod of the pack is        *)
(* reported skipped, and every count is one more than before the call.     *)
(***************************************************************************)
C7_ReinstallSkips ==
    [][ (/\ EndOfCall("install")
         /\ AfterInstallOfSamePack
         /\ ~io_failed')
        => /\ DOMAIN mods_dir' = call.pre.files
           /\ call'.copied = << >>
           /\ \A mod_id \in IdsOf(call.pack_mods) :
                 /\ Emitted(call', "skipped_installation", mod_id)
                 /\ mod_id \in DOMAIN call.pre.packed_mods
                 /\ packed_mods'[mod_id] = call.pre.packed_mods[mod_id] + 1 ]_vars

(***************************************************************************)
(* C8. A call whose pack opened ends with every mod of its scan mapping    *)
(* processed and counted in one tally, and with its summary emitted,       *)
(* whatever the copies and unlinks did.                                    *)
(***************************************************************************)
C8_FailuresIsolated ==
    (pc = "idle" /\ prev.op # "none" /\ PackReadable(prev.pack_path)) =>
        /\ prev.next = Len(prev.pack_mods) + 1
        /\ prev.installed_count + prev.uninstalled_count + prev.skipped_count
              + prev.failed_count = Len(prev.pack_mods)
        /\ \A mod_id \in IdsOf(prev.pack_mods) :
              Cardinality(EventsFor(prev, mod_id)) = 1
        /\ prev.summary # NoSummary

(***************************************************************************)
(* C9. The iteration of uninstall_pack over a mod with no store entry      *)
(* emits failed_uninstallation "it was not installed", counts it as        *)
(* failed, and changes neither the store, nor the listing, nor any file.   *)
(***************************************************************************)
C9_NotInstalled ==
    [][ (/\ pc = "uninstall"
         /\ call.next <= Len(call.pack_mods)
         /\ call.pack_mods[call.next].mod_id \notin DOMAIN packed_mods)
        => /\ call'.events = Append(call.events,
                  Event("failed_uninstallation", call.pack_mods[call.next].mod_id,
                        call.failed_count + 1, "it was not installed"))
           /\ call'.failed_count = call.failed_count + 1
           /\ call'.uninstalled_count = call.uninstalled_count
           /\ call'.skipped_count = call.skipped_count
           /\ packed_mods' = packed_mods
           /\ current_mods' = current_mods
           /\ mods_dir' = mods_dir ]_vars

\* A mod that is listed in current_mods but has no store entry was reported
\* as not installed.
C9_Witness ==
    /\ call.op = "uninstall"
    /\ \E i \in 1..Len(call.events) :
          /\ call.events[i].reason = "it was not installed"
          /\ call.events[i].mod_id \in DOMAIN call.pre.current_mods

(***************************************************************************)
(* C10. In a session, the scan of every pack with the session's cache      *)
(* returns the mapping its scan with an empty cache returns.               *)
(***************************************************************************)
C10_CacheIsMemo ==
    initted =>
        \A p \in PackPaths :
            get_mod_versions(PackEntries(p), version_id_cache).result
                = get_mod_versions(PackEntries(p), EmptyMap).result

\* The file names of a scan mapping.
FilesOf(pack_mods) == { pack_mods[i].file : i \in 1..Len(pack_mods) }

\* The running call scanned the pack that the call before it scanned, in the
\* same session: two scans of one container with one cache object.
ScannedAgain ==
    /\ pc # "idle"
    /\ prev.op # "none"
    /\ prev.pack_path = call.pack_path
    /\ prev.session = call.session

(***************************************************************************)
(* C11, as stated.  Two scans of an unchanged container with the session's *)
(* cache return the same mapping, and the second scan opens no entry of    *)
(* the container.                                                          *)
(***************************************************************************)
C11_RescanOpensNothing ==
    ScannedAgain =>
        /\ call.pack_mods = prev.pack_mods
        /\ call.opened = << >>

(***************************************************************************)
(* C11, amended.  Two scans of an unchanged container with the session's   *)
(* cache return the same mapping, and the second scan opens no entry that  *)
(* the mapping names: it opens only .jar files that gave no descriptor,    *)
(* each of which the first scan opened too.                                *)
(***************************************************************************)
C11_RescanOpensNoMod ==
    ScannedAgain =>
        /\ call.pack_mods = prev.pack_mods
        /\ \A i \in 1..Len(call.opened) :
              /\ call.opened[i] \notin FilesOf(call.pack_mods)
              /\ \E j \in 1..Len(prev.opened) : prev.opened[j] = call.opened[i]

\* Pack B, which holds a mod and two .jar files that are not mods, was scanned
\* by two calls in a row: the second scan returned the mod and opened the two
\* others.
C11_Witness ==
    /\ ScannedAgain
    /\ call.pack_path = "B"
    /\ call.pack_mods # << >>
    /\ call.opened = << "bad.jar", "old.jar" >>

(***************************************************************************)
(* C12. deinit attempts the write of the cache file and the write of the   *)
(* installed-packs file, whatever the first did: after it each file holds  *)
(* what was to be written or what a failed write left.  It raises exactly  *)
(* when a write failed, and when both failed it raises both failures.      *)
(***************************************************************************)
C12_BothWritesAttempted ==
    [][ (initted /\ ~initted')
        => /\ cache_file' \in { Holding(version_id_cache), Corrupt }
           /\ installed_packs_file' \in { Holding(packed_mods), Corrupt }
           /\ (deinit_raised' # << >>)
                 <=> (cache_file' = Corrupt \/ installed_packs_file' = Corrupt)
           /\ cache_file' = Corrupt
                 => \E i \in 1..Len(deinit_raised') : deinit_raised'[i] = "cache_file"
           /\ installed_packs_file' = Corrupt
                 => \E i \in 1..Len(deinit_raised') :
                       deinit_raised'[i] = "installed_packs_file" ]_vars

\* A session with a store to save was closed and both writes failed.
C12_Witness ==
    /\ ~initted
    /\ packed_mods # EmptyMap
    /\ cache_file = Corrupt
    /\ installed_packs_file = Corrupt
    /\ deinit_raised = << "cache_file", "installed_packs_file" >>

(***************************************************************************)
(* C13. Every init opens the session: it raises nothing, and a store whose *)
(* file is missing, holds no JSON or cannot be read starts empty (for the  *)
(* cache: it holds only what this init's scan of the mods directory put    *)
(* into it).                                                               *)
(***************************************************************************)
C13_OpenNeverFails ==
    [][ (pc = "idle" /\ ~initted /\ sessions' = sessions + 1)
        => /\ initted'
           /\ init_raised' = None
           /\ (cache_file.state # "json" \/ init_raised' = "cache_file")
                 => DOMAIN version_id_cache' \subseteq DOMAIN mods_dir
           /\ (installed_packs_file.state # "json"
                   \/ init_raised' = "installed_packs_file")
                 => packed_mods' = EmptyMap ]_vars

(***************************************************************************)
(* C14. install_pack and uninstall_pack of a path that opens as no archive *)
(* ("X") end at once with the error raised: no event at all and no summary *)
(* is emitted, and the store, the current mods listing and the mods        *)
(* directory are what they were.                                           *)
(***************************************************************************)
C14_UnopenablePackAborts ==
    [][ (pc = "idle" /\ calls' = calls + 1 /\ call'.pack_path = "X")
        => /\ call'.raised
           /\ pc' = "idle"
           /\ call'.events = << >>
           /\ call'.summary = NoSummary
           /\ packed_mods' = packed_mods
           /\ current_mods' = current_mods
           /\ mods_dir' = mods_dir ]_vars

\* uninstall_pack of the missing archive was called on a session that had
\* mods installed and listed.
C14_Witness ==
    /\ prev.op = "uninstall"
    /\ prev.pack_path = "X"
    /\ prev.raised
    /\ prev.pre.packed_mods # EmptyMap
    /\ prev.pre.current_mods # EmptyMap
    /\ prev.pre.files # {}

(***************************************************************************)
(* C15. When an iteration of uninstall_pack brings the count of a listed   *)
(* mod to 0, the path it calls unlink on is the file name current_mods     *)
(* records for that mod, whatever file name the pack gives its copy.       *)
(***************************************************************************)
C15_UnlinksListedFile ==
    [][ (/\ pc = "uninstall"
         /\ call.next <= Len(call.pack_mods)
         /\ call.pack_mods[call.next].mod_id \in DOMAIN packed_mods
         /\ packed_mods[call.pack_mods[call.next].mod_id] - 1 <= 0
         /\ call.pack_mods[call.next].mod_id \in DOMAIN current_mods)
        => call'.unlinked = Append(call.unlinked,
               current_mods[call.pack_mods[call.next].mod_id].file) ]_vars

(***************************************************************************)
(* C16. The iteration of uninstall_pack over a mod whose count stays above *)
(* 0 after the decrement counts it as skipped and emits                    *)
(* skipped_uninstallation; it calls unlink on nothing, leaves the mods     *)
(* directory and the current mods listing as they were, and leaves the     *)
(* store with this entry at its previous count minus 1.                    *)
(***************************************************************************)
C16_SkipKeepsFile ==
    [][ (/\ pc = "uninstall"
         /\ call.next <= Len(call.pack_mods)
         /\ call.pack_mods[call.next].mod_id \in DOMAIN packed_mods
         /\ packed_mods[call.pack_mods[call.next].mod_id] - 1 > 0)
        => LET mod_id == call.pack_mods[call.next].mod_id IN
           /\ call'.events = Append(call.events,
                  Event("skipped_uninstallation", mod_id, call.skipped_count + 1, None))
           /\ call'.skipped_count = call.skipped_count + 1
           /\ call'.uninstalled_count = call.uninstalled_count
           /\ call'.failed_count = call.failed_count
           /\ call'.unlinked = call.unlinked
           /\ mods_dir' = mods_dir
           /\ current_mods' = current_mods
           /\ packed_mods' = Put(packed_mods, mod_id, packed_mods[mod_id] - 1) ]_vars

\* uninstall_pack skipped a mod whose count was 2, with the pack's file of that
\* mod in the mods directory.
C16_Witness ==
    /\ call.op = "uninstall"
    /\ \E i \in 1..Len(call.events) :
          /\ call.events[i].event = "skipped_uninstallation"
          /\ call.pre.packed_mods[call.events[i].mod_id] = 2
          /\ packed_mods[call.events[i].mod_id] = 1
          /\ ItemOf(call.pack_mods, call.events[i].mod_id).file \in DOMAIN mods_dir

(***************************************************************************)
(* C17. The iteration of uninstall_pack over a mod whose count drops to 0  *)
(* and whose file to unlink is not in the mods directory counts it as      *)
(* failed and emits failed_uninstallation "it was missing"; the mod id is  *)
(* then in neither the current mods listing nor the store.                 *)
(***************************************************************************)
C17_MissingFileStillForgotten ==
    [][ (/\ pc = "uninstall"
         /\ call.next <= Len(call.pack_mods)
         /\ call.pack_mods[call.next].mod_id \in DOMAIN packed_mods
         /\ packed_mods[call.pack_mods[call.next].mod_id] - 1 <= 0
         /\ RemovalPath(call.pack_mods[call.next]) \notin DOMAIN mods_dir)
        => LET mod_id == call.pack_mods[call.next].mod_id IN
           /\ call'.events = Append(call.events,
                  Event("failed_uninstallation", mod_id, call.failed_count + 1,
                        "it was missing"))
           /\ call'.failed_count = call.failed_count + 1
           /\ call'.uninstalled_count = call.uninstalled_count
           /\ call'.skipped_count = call.skipped_count
           /\ mod_id \notin DOMAIN current_mods'
           /\ mod_id \notin DOMAIN packed_mods'
           /\ current_mods' = Pop(current_mods, mod_id)
           /\ packed_mods' = Pop(packed_mods, mod_id)
           /\ mods_dir' = mods_dir ]_vars

\* uninstall_pack reported a mod missing that the call found in the store and in
\* the listing, and both have lost it.
C17_Witness ==
    /\ call.op = "uninstall"
    /\ \E i \in 1..Len(call.events) :
          /\ call.events[i].reason = "it was missing"
          /\ call.events[i].mod_id \in DOMAIN call.pre.packed_mods
          /\ call.events[i].mod_id \in DOMAIN call.pre.current_mods
          /\ call.events[i].mod_id \notin DOMAIN packed_mods
          /\ call.events[i].mod_id \notin DOMAIN current_mods

(***************************************************************************)
(* C18. The iteration of install_pack over a mod that current_mods does    *)
(* not list and whose copy fails counts it as failed and emits             *)
(* failed_installation; the store holds the mod at count 1, every other    *)
(* count is what it was, current_mods is what it was, and every file of    *)
(* the mods directory but the target of the failed copy, the files copied  *)
(* earlier in the call among them, is what it was.                         *)
(***************************************************************************)
C18_FailedCopyKeepsCount ==
    [][ (/\ pc = "install"
         /\ call.next <= Len(call.pack_mods)
         /\ call.pack_mods[call.next].mod_id \notin DOMAIN current_mods
         /\ call'.copied = call.copied)
        => LET mod == call.pack_mods[call.next] IN
           /\ \E reason \in CopyOutcomes \ {"copied"} :
                 call'.events = Append(call.events,
                     Event("failed_installation", mod.mod_id,
                           call.failed_count + 1, reason))
           /\ call'.failed_count = call.failed_count + 1
           /\ call'.installed_count = call.installed_count
           /\ call'.skipped_count = call.skipped_count
           /\ DOMAIN packed_mods' = DOMAIN packed_mods \cup {mod.mod_id}
           /\ packed_mods'[mod.mod_id] = 1
           /\ \A other \in DOMAIN packed_mods \ {mod.mod_id} :
                 packed_mods'[other] = packed_mods[other]
           /\ current_mods' = current_mods
           /\ \A file \in DOMAIN mods_dir \ {mod.file} :
                 file \in DOMAIN mods_dir' /\ mods_dir'[file] = mods_dir[file]
           /\ \A i \in 1..Len(call.copied) :
                 call.copied[i] \in DOMAIN mods_dir' ]_vars

\* In one install_pack a mod was copied and counted, and the copy of a later
\* mod failed: the first file and both counts are there.
C18_Witness ==
    /\ call.op = "install"
    /\ \E i, j \in 1..Len(call.events) :
          /\ i < j
          /\ call.events[i].event = "succeeded_installation"
          /\ call.events[j].event = "failed_installation"
          /\ call.copied # << >>
          /\ call.copied[1] \in DOMAIN mods_dir
          /\ call.events[i].mod_id \in DOMAIN packed_mods
          /\ call.events[j].mod_id \in DOMAIN packed_mods
          /\ packed_mods[call.events[j].mod_id] = 1
          /\ call.events[j].mod_id \notin DOMAIN current_mods

\* The per-mod outcome events of a call: all but identified_mods_to_install.
PerModEvents(c) == { i \in 1..Len(c.events) : c.events[i].mod_id # None }

(***************************************************************************)
(* C19. A call of install_pack or uninstall_pack that has returned emitted *)
(* exactly one per-mod event for each mod of its scan mapping and no other *)
(* per-mod event, and the three tallies of its summary add up to the       *)
(* number of mods of the scan mapping.                                     *)
(***************************************************************************)
C19_TalliesAddUp ==
    (pc = "idle" /\ prev.op # "none" /\ ~prev.raised) =>
        /\ \A mod_id \in IdsOf(prev.pack_mods) :
              Cardinality(EventsFor(prev, mod_id)) = 1
        /\ Cardinality(PerModEvents(prev)) = Len(prev.pack_mods)
        /\ Len(prev.summary) = 3
        /\ prev.summary[1] + prev.summary[2] + prev.summary[3] = Len(prev.pack_mods)

\* An uninstall_pack of a pack of two mods returned after a file it was to
\* unlink was missing.
C19_Witness ==
    /\ pc = "idle"
    /\ prev.op = "uninstall"
    /\ ~prev.raised
    /\ Len(prev.pack_mods) = 2
    /\ \E i \in 1..Len(prev.events) : prev.events[i].reason = "it was missing"
    /\ prev.summary[3] > 0

====
